---- MODULE Spec2Model ----
(***************************************************************************)
(* NDVI_Viewer (src/app.py): one Streamlit script that is re-executed from *)
(* top to bottom on every user interaction.  A render cycle reads three    *)
(* widgets, builds a filtered Sentinel-2 collection on Earth Engine, reads *)
(* its size and two property arrays, mosaics it according to the band      *)
(* option, asks for a tile handle and renders a folium map.                *)
(*                                                                         *)
(* Units.  Timestamps ('system:time_start') are milliseconds in the code;  *)
(* here they are whole hours since 1970-01-01T00:00Z, so that they fit the *)
(* model checker's integers.  CLOUDY_PIXEL_PERCENTAGE is a float in the    *)
(* code; here it is an integer number of hundredths of a percent.          *)
(* Calendar dates are triples <<year, month, day>>, which is also what the *)
(* text 'YYYY-MM-DD' made by str(date) carries.                            *)
(***************************************************************************)
EXTENDS Integers, Sequences, FiniteSets, TLC

(***************************************************************************)
(* Bounds of the model.                                                    *)
(***************************************************************************)
\* the longest image catalogue the remote service holds
MaxImages == 2

(***************************************************************************)
(* Program constants.                                                      *)
(***************************************************************************)
\* timedelta(days=20)
LookbackDays == 20
\* slider(min_value=0, max_value=100, value=40)
SliderMin == 0
SliderMax == 100
DefaultCloudThreshold == 40
\* date_input offers the default value plus and minus ten years
DateInputYears == 10

DefaultRefDate == <<2025, 7, 3>>
BandOptions == {"NDVI", "RGB", "B4", "B8"}
DefaultBandOption == "NDVI"

(***************************************************************************)
(* datetime.date: the proleptic Gregorian calendar of the standard         *)
(* library (_is_leap, _days_in_month, _ymd2ord, _ord2ymd).                 *)
(***************************************************************************)
IsLeap(y) == (y % 4 = 0) /\ ((y % 100 # 0) \/ (y % 400 = 0))

DaysInMonth(y, m) ==
    IF m = 2 THEN (IF IsLeap(y) THEN 29 ELSE 28)
    ELSE IF m \in {4, 6, 9, 11} THEN 30 ELSE 31

RECURSIVE DaysBeforeMonth(_, _)
DaysBeforeMonth(y, m) ==
    IF m = 1 THEN 0 ELSE DaysBeforeMonth(y, m - 1) + DaysInMonth(y, m - 1)

DaysBeforeYear(y) ==
    LET p == y - 1 IN p * 365 + (p \div 4) - (p \div 100) + (p \div 400)

\* date.toordinal(): 0001-01-01 is day 1
ToOrdinal(d) == DaysBeforeYear(d[1]) + DaysBeforeMonth(d[1], d[2]) + d[3]

\* date.fromordinal(n), as _ord2ymd computes it from the 400/100/4/1 year cycles
FromOrdinal(n) ==
    LET di4y   == 4 * 365 + 1
        di100y == 25 * di4y - 1
        di400y == 4 * di100y + 1
        n0   == n - 1
        n400 == n0 \div di400y
        r400 == n0 % di400y
        n100 == r400 \div di100y
        r100 == r400 % di100y
        n4   == r100 \div di4y
        r4   == r100 % di4y
        n1   == r4 \div 365
        r1   == r4 % 365
        year == n400 * 400 + 1 + n100 * 100 + n4 * 4 + n1
        leap == (n1 = 3) /\ ((n4 # 24) \/ (n100 = 3))
        m0   == (r1 + 50) \div 32
        lp(m) == IF m > 2 /\ leap THEN 1 ELSE 0
        pre0 == DaysBeforeMonth(2001, m0) + lp(m0)
        month == IF pre0 > r1 THEN m0 - 1 ELSE m0
        pre  == IF pre0 > r1
                THEN pre0 - (DaysInMonth(2001, m0 - 1)
                             + (IF m0 - 1 = 2 /\ leap THEN 1 ELSE 0))
                ELSE pre0
    IN  IF n1 = 4 \/ n100 = 4
        THEN <<year - 1, 12, 31>>
        ELSE <<year, month, r1 - pre + 1>>

\* mutant: the window taken as three full weeks back
DateMinusDaysThreeWeeks(d, k) == FromOrdinal(ToOrdinal(d) - (k + 1))

\* date - timedelta(days=k)
DateMinusDays(d, k) == FromOrdinal(ToOrdinal(d) - k)

\* date <= date
DateLE(a, b) ==
    \/ a[1] < b[1]
    \/ a[1] = b[1] /\ a[2] < b[2]
    \/ a[1] = b[1] /\ a[2] = b[2] /\ a[3] <= b[3]

\* the dates the date_input widget lets the user pick
DateInputRange ==
    LET lo == <<DefaultRefDate[1] - DateInputYears, DefaultRefDate[2], DefaultRefDate[3]>>
        hi == <<DefaultRefDate[1] + DateInputYears, DefaultRefDate[2], DefaultRefDate[3]>>
    IN  {d \in {<<y, m, dd>> : y \in lo[1]..hi[1], m \in 1..12, dd \in 1..31} :
            /\ d[3] <= DaysInMonth(d[1], d[2])
            /\ DateLE(lo, d) /\ DateLE(d, hi)}

\* Earth Engine reads the text 'YYYY-MM-DD' as 00:00 UTC of that day
ParseDate(d) == (ToOrdinal(d) - ToOrdinal(<<1970, 1, 1>>)) * 24

\* datetime.fromtimestamp(ts / 1000).strftime('%Y-%m-%d'), server clock in UTC
FormatDate(ts) == FromOrdinal(ToOrdinal(<<1970, 1, 1>>) + (ts \div 24))

\* f"{cloud:.1f}": the percentage rounded to one decimal, in tenths of a percent
FormatCloud(c) == (c + 5) \div 10

(***************************************************************************)
(* The remote catalogue COPERNICUS/S2_SR_HARMONIZED.  An image has an      *)
(* acquisition time, a cloud percentage (absent on some images) and a      *)
(* footprint, the set of ground pixels it covers.  Pixels 1 and 2 lie in   *)
(* the Akita rectangle, pixel 3 lies outside it.                           *)
(***************************************************************************)
Pixels == 1..3
\* akita = ee.Geometry.Rectangle([138.8, 38.92, 141.18, 41.1])
akita == {1, 2}

At(d, h) == ParseDate(d) + h

\* hasCloud: whether the image carries CLOUDY_PIXEL_PERCENTAGE at all
Img(i, t, c, fp) ==
    [id |-> i, time |-> t, hasCloud |-> c >= 0, cloud |-> c, footprint |-> fp]

\* the images the catalogue may hold
ImageUniverse ==
    { Img("b", At(<<2025, 6, 13>>, 1),  1234, {1, 2}),
      Img("c", At(<<2025, 6, 25>>, 1),  4000, {1, 2}),
      Img("d", At(<<2025, 6, 28>>, 1),  3996, {1, 2}),
      Img("e", At(<<2025, 7, 3>>, 1),   512,  {2, 3}),
      Img("f", At(<<2025, 6, 20>>, 1),  100,  {3}),
      Img("g", At(<<2025, 6, 22>>, 1),  0 - 1, {1}) }

\* a catalogue lists distinct images in the order the service returns them
Catalogues ==
    {s \in UNION {[1..n -> ImageUniverse] : n \in 0..MaxImages} :
        \A i, j \in DOMAIN s : i # j => s[i] # s[j]}

(***************************************************************************)
(* Earth Engine operations used by the script.                             *)
(***************************************************************************)
\* .filterBounds(geom): the images whose footprint intersects the geometry
FilterBounds(coll, geom) ==
    LET keep(img) == img.footprint \cap geom # {} IN SelectSeq(coll, keep)

\* .filterDate(start, end): start inclusive, end exclusive
FilterDate(coll, start, end) ==
    LET keep(img) == ParseDate(start) <= img.time /\ img.time < ParseDate(end)
    IN  SelectSeq(coll, keep)

\* mutant: the threshold taken as inclusive (Filter.lte)
FilterLte(coll, value) ==
    LET keep(img) == img.hasCloud /\ img.cloud <= value * 100
    IN  SelectSeq(coll, keep)

\* mutant: an image without the property passes the filter
FilterLtOrMissing(coll, value) ==
    LET keep(img) == ~img.hasCloud \/ img.cloud < value * 100
    IN  SelectSeq(coll, keep)

\* .filter(ee.Filter.lt(property, value)): an image without the property fails
FilterLt(coll, value) ==
    LET keep(img) == img.hasCloud /\ img.cloud < value * 100
    IN  SelectSeq(coll, keep)

\* mutant: the timestamps come back in ascending order
RECURSIVE SortedNumbers(_)
SortedNumbers(S) ==
    IF S = {} THEN <<>>
    ELSE LET least == CHOOSE x \in S : \A y \in S : x <= y
         IN  <<least>> \o SortedNumbers(S \ {least})

AggregateTimeSorted(coll) == SortedNumbers({coll[i].time : i \in DOMAIN coll})

\* .aggregate_array(property): the non-null values, in collection order
AggregateTime(coll) == [i \in DOMAIN coll |-> coll[i].time]

AggregateCloud(coll) ==
    LET has(img) == img.hasCloud
        kept == SelectSeq(coll, has)
    IN  [i \in DOMAIN kept |-> kept[i].cloud]

\* .sort('system:time_start', ascending): a stable sort on the acquisition time
RECURSIVE InsertByTime(_, _, _)
InsertByTime(img, sorted, ascending) ==
    IF sorted = <<>> THEN <<img>>
    ELSE LET h == Head(sorted)
             before == IF ascending THEN img.time < h.time ELSE img.time > h.time
         IN  IF before THEN <<img>> \o sorted
             ELSE <<h>> \o InsertByTime(img, Tail(sorted), ascending)

RECURSIVE SortByTime(_, _)
SortByTime(coll, ascending) ==
    IF coll = <<>> THEN <<>>
    ELSE LET n == Len(coll)
         IN  InsertByTime(coll[n], SortByTime(SubSeq(coll, 1, n - 1), ascending), ascending)

\* .mosaic(): at each pixel the last image of the collection that covers it
RECURSIVE TopOf(_, _)
TopOf(coll, px) ==
    IF coll = <<>> THEN "none"
    ELSE LET n == Len(coll)
         IN  IF px \in coll[n].footprint THEN coll[n].id
             ELSE TopOf(SubSeq(coll, 1, n - 1), px)

Mosaic(coll) == [px \in Pixels |-> TopOf(coll, px)]

\* .clip(geom): pixels outside the geometry are masked
Clip(raster, geom) == [px \in Pixels |-> IF px \in geom THEN raster[px] ELSE "none"]

\* zip(xs, ys): pairs up to the shorter of the two
Zip(xs, ys) ==
    LET n == IF Len(xs) < Len(ys) THEN Len(xs) ELSE Len(ys)
    IN  [i \in 1..n |-> <<xs[i], ys[i]>>]

\* lines 70-73: one "date (cloud x.y%)" text per zipped pair
FormatList(ts, cs) ==
    LET z == Zip(ts, cs)
    IN  [i \in DOMAIN z |-> <<FormatDate(z[i][1]), FormatCloud(z[i][2])>>]

\* lines 51-56: the filtered collection the three filters describe
BuildCollection(cat, start, end, threshold) ==
    FilterLt(FilterDate(FilterBounds(cat, akita), start, end), threshold)

\* lines 79-95: the displayed image and its visualisation for a band option
\* (the per-image NDVI map keeps each image's footprint and order)
ImageFor(band, coll) ==
    IF band = "NDVI"
    THEN [bands |-> <<"NDVI">>, stretch |-> <<>>,
          raster |-> Clip(Mosaic(SortByTime(coll, FALSE)), akita)]
    ELSE IF band = "RGB"
    THEN [bands |-> <<"B4", "B3", "B2">>, stretch |-> <<0, 3000>>,
          raster |-> Clip(Mosaic(coll), akita)]
    ELSE [bands |-> <<band>>, stretch |-> <<>>,
          raster |-> Clip(Mosaic(coll), akita)]

\* the NDVI range 0.1 .. 0.7 is written in tenths
VisFor(band) ==
    IF band = "NDVI"
    THEN [range |-> <<1, 7>>, palette |-> <<"white", "yellow", "green">>]
    ELSE IF band = "RGB"
    THEN [range |-> <<>>, palette |-> <<>>]
    ELSE [range |-> <<0, 3000>>, palette |-> <<"black", "white">>]

(***************************************************************************)
(* The state of one browser session.  An optional value is a sequence of   *)
(* length zero (absent) or one (present).                                  *)
(***************************************************************************)
VARIABLES
    catalogue,        \* the remote catalogue, in the order the service returns it
    ref_date,         \* date_input widget
    cloud_threshold,  \* slider widget
    band_option,      \* selectbox widget
    pc,               \* the script's position in the current render cycle
    start_date,       \* optional
    end_date,         \* optional
    collection,       \* the images the filtered collection evaluates to
    count,            \* optional: the size read from the service
    timestamps,       \* optional: the first aggregate_array read
    clouds,           \* optional: the second aggregate_array read
    sidebar,          \* what the cycle has written to the sidebar
    image,            \* optional: the composite built for the band option
    vis,              \* optional: its visualisation parameters
    map_id_dict,      \* optional: the tile handle
    m,                \* optional: the folium map
    shown,            \* optional: what st_folium was given
    calls,            \* remote calls issued in the current cycle
    prev              \* optional: the last cycle that ran to its end

vars == <<catalogue, ref_date, cloud_threshold, band_option, pc, start_date,
          end_date, collection, count, timestamps, clouds, sidebar, image, vis,
          map_id_dict, m, shown, calls, prev>>

inputs == <<ref_date, cloud_threshold, band_option>>
working == <<start_date, end_date, collection, count, timestamps, clouds,
             image, vis, map_id_dict, m, shown>>

None == <<>>
Some(x) == <<x>>

\* values uuid.uuid4() may return
UUIDs == {"u1", "u2"}
RemoteCalls == {"center", "size", "timestamps", "clouds", "mapid"}

\* the widget values a user picks in this model
RefDates == {DefaultRefDate, FromOrdinal(ToOrdinal(DefaultRefDate) + 1)}
Thresholds == {SliderMin, DefaultCloudThreshold}

EmptySidebar == [period |-> None, count |-> None, warning |-> FALSE, list |-> None]

\* a script run starts with nothing computed and nothing on the page
FreshRun ==
    /\ pc = "center"
    /\ start_date = None /\ end_date = None
    /\ collection = <<>>
    /\ count = None /\ timestamps = None /\ clouds = None
    /\ sidebar = EmptySidebar
    /\ image = None /\ vis = None /\ map_id_dict = None
    /\ m = None /\ shown = None
    /\ calls = [c \in RemoteCalls |-> 0]

\* the first run of a session sees the widgets' default values
Init ==
    /\ catalogue \in Catalogues
    /\ ref_date = DefaultRefDate
    /\ cloud_threshold = DefaultCloudThreshold
    /\ band_option = DefaultBandOption
    /\ FreshRun
    /\ prev = None

Called(c) == calls' = [calls EXCEPT ![c] = @ + 1]

\* line 28: center = akita.centroid().coordinates().getInfo()
GetCenter ==
    /\ pc = "center"
    /\ Called("center")
    /\ pc' = "inputs"
    /\ UNCHANGED <<catalogue, inputs, working, sidebar, prev>>

\* lines 35-56: the window, its sidebar line, and the filtered collection
ReadInputs ==
    /\ pc = "inputs"
    /\ start_date' = Some(DateMinusDays(ref_date, LookbackDays))
    /\ end_date' = Some(ref_date)
    /\ sidebar' = [sidebar EXCEPT !.period = Some(<<start_date'[1], end_date'[1]>>)]
    /\ collection' = BuildCollection(catalogue, start_date'[1], end_date'[1], cloud_threshold)
    /\ pc' = "size"
    /\ UNCHANGED <<catalogue, inputs, count, timestamps, clouds, image, vis,
                   map_id_dict, m, shown, calls, prev>>

\* mutant: the warning is shown but the script does not stop
GetSizeNoStop ==
    /\ pc = "size"
    /\ Called("size")
    /\ count' = Some(Len(collection))
    /\ sidebar' = [sidebar EXCEPT !.count = count', !.warning = (Len(collection) = 0)]
    /\ pc' = "timestamps"
    /\ UNCHANGED <<catalogue, inputs, start_date, end_date, collection, timestamps,
                   clouds, image, vis, map_id_dict, m, shown, prev>>

\* lines 58-63: the size, its sidebar line, and the stop on an empty collection
GetSize ==
    /\ pc = "size"
    /\ Called("size")
    /\ count' = Some(Len(collection))
    /\ IF Len(collection) = 0
       THEN /\ sidebar' = [sidebar EXCEPT !.count = count', !.warning = TRUE]
            /\ pc' = "stopped"
       ELSE /\ sidebar' = [sidebar EXCEPT !.count = count']
            /\ pc' = "timestamps"
    /\ UNCHANGED <<catalogue, inputs, start_date, end_date, collection, timestamps,
                   clouds, image, vis, map_id_dict, m, shown, prev>>

\* line 66
GetTimestamps ==
    /\ pc = "timestamps"
    /\ Called("timestamps")
    /\ timestamps' = Some(AggregateTime(collection))
    /\ pc' = "clouds"
    /\ UNCHANGED <<catalogue, inputs, start_date, end_date, collection, count,
                   clouds, sidebar, image, vis, map_id_dict, m, shown, prev>>

\* lines 67-76: the cloud percentages and the list written to the sidebar
GetClouds ==
    /\ pc = "clouds"
    /\ Called("clouds")
    /\ clouds' = Some(AggregateCloud(collection))
    /\ sidebar' = [sidebar EXCEPT !.list = Some(FormatList(timestamps[1], clouds'[1]))]
    /\ pc' = "band"
    /\ UNCHANGED <<catalogue, inputs, start_date, end_date, collection, count,
                   timestamps, image, vis, map_id_dict, m, shown, prev>>

\* lines 79-95
BuildImage ==
    /\ pc = "band"
    /\ image' = Some(ImageFor(band_option, collection))
    /\ vis' = Some(VisFor(band_option))
    /\ pc' = "mapid"
    /\ UNCHANGED <<catalogue, inputs, start_date, end_date, collection, count,
                   timestamps, clouds, sidebar, map_id_dict, m, shown, calls, prev>>

\* line 98: the tile handle stands for the image under the visualisation
GetMapId ==
    /\ pc = "mapid"
    /\ Called("mapid")
    /\ map_id_dict' = Some([image |-> image[1], vis |-> vis[1]])
    /\ pc' = "map"
    /\ UNCHANGED <<catalogue, inputs, start_date, end_date, collection, count,
                   timestamps, clouds, sidebar, image, vis, m, shown, prev>>

\* mutant: the legend is left out for RGB only
WithLegendUnlessRGB(band) == band # "RGB"

\* lines 110-135: the legend is added for NDVI only
WithLegend(band) == band = "NDVI"

\* mutant: the map object survives the rerun and layers pile up on it
MakeMapOnOldMap ==
    /\ pc = "map"
    /\ \E u \in UUIDs :
         m' = Some([layers  |-> (IF prev # None /\ prev[1].shown # None
                                 THEN prev[1].shown[1].map.layers ELSE <<>>)
                                \o << [tiles |-> map_id_dict[1],
                                       name  |-> <<band_option, ref_date, u>>] >>,
                    control |-> TRUE,
                    legend  |-> WithLegend(band_option)])
    /\ pc' = "present"
    /\ UNCHANGED <<catalogue, inputs, start_date, end_date, collection, count,
                   timestamps, clouds, sidebar, image, vis, map_id_dict, shown,
                   calls, prev>>

\* lines 99-135: the map, its one tile layer named with a fresh uuid4, the
\* layer control and the legend
MakeMap ==
    /\ pc = "map"
    /\ \E u \in UUIDs :
         m' = Some([layers  |-> << [tiles |-> map_id_dict[1],
                                    name  |-> <<band_option, ref_date, u>>] >>,
                    control |-> TRUE,
                    legend  |-> WithLegend(band_option)])
    /\ pc' = "present"
    /\ UNCHANGED <<catalogue, inputs, start_date, end_date, collection, count,
                   timestamps, clouds, sidebar, image, vis, map_id_dict, shown,
                   calls, prev>>

\* lines 137-185: title, explanation, and the map widget keyed with a fresh uuid4
Present ==
    /\ pc = "present"
    /\ \E u \in UUIDs : shown' = Some([map |-> m[1], key |-> <<"map", u>>])
    /\ pc' = "done"
    /\ UNCHANGED <<catalogue, inputs, start_date, end_date, collection, count,
                   timestamps, clouds, sidebar, image, vis, map_id_dict, m,
                   calls, prev>>

\* mutant: a failed call is issued once more before giving up
RemoteFailRetry ==
    /\ pc \in RemoteCalls
    /\ Called(pc)
    /\ pc' = IF calls[pc] = 0 THEN pc ELSE "failed"
    /\ UNCHANGED <<catalogue, inputs, working, sidebar, prev>>

\* a getInfo / getMapId call raises: nothing catches it, the script run ends
RemoteFail ==
    /\ pc \in RemoteCalls
    /\ Called(pc)
    /\ pc' = "failed"
    /\ UNCHANGED <<catalogue, inputs, working, sidebar, prev>>

\* what a finished cycle leaves on the page and what it computed
Outcome ==
    [ref_date |-> ref_date, cloud_threshold |-> cloud_threshold,
     band_option |-> band_option, pc |-> pc, collection |-> collection,
     image |-> image, vis |-> vis, sidebar |-> sidebar, shown |-> shown]

\* a user interaction after a cycle has ended: at most one widget changes and
\* the framework runs the whole script again, from the top
Rerun ==
    /\ pc \in {"done", "stopped", "failed"}
    /\ \/ ref_date' \in RefDates /\ UNCHANGED <<cloud_threshold, band_option>>
       \/ cloud_threshold' \in Thresholds /\ UNCHANGED <<ref_date, band_option>>
       \/ band_option' \in BandOptions /\ UNCHANGED <<ref_date, cloud_threshold>>
    /\ pc' = "center"
    /\ start_date' = None /\ end_date' = None
    /\ collection' = <<>>
    /\ count' = None /\ timestamps' = None /\ clouds' = None
    /\ sidebar' = EmptySidebar
    /\ image' = None /\ vis' = None /\ map_id_dict' = None
    /\ m' = None /\ shown' = None
    /\ calls' = [c \in RemoteCalls |-> 0]
    /\ prev' = IF pc \in {"done", "stopped"} THEN Some(Outcome) ELSE prev
    /\ UNCHANGED catalogue

Next ==
    \/ GetCenter
    \/ ReadInputs
    \/ GetSize
    \/ GetTimestamps
    \/ GetClouds
    \/ BuildImage
    \/ GetMapId
    \/ MakeMap
    \/ Present
    \/ RemoteFail
    \/ Rerun

Spec == Init /\ [][Next]_vars

(***************************************************************************)
(* One render cycle under any slider position: the session as it stands    *)
(* after earlier cycles that failed (nothing of them is kept) and moved    *)
(* the widgets.                                                            *)
(***************************************************************************)
InitCycle ==
    /\ catalogue \in Catalogues
    /\ ref_date \in RefDates
    /\ cloud_threshold \in SliderMin..SliderMax
    /\ band_option \in BandOptions
    /\ FreshRun
    /\ prev = None

NextCycle ==
    \/ GetCenter
    \/ ReadInputs
    \/ GetSize
    \/ GetTimestamps
    \/ GetClouds
    \/ BuildImage
    \/ GetMapId
    \/ MakeMap
    \/ Present
    \/ RemoteFail

SpecCycle == InitCycle /\ [][NextCycle]_vars

(***************************************************************************)
(* The window derivation alone, for every date the date_input offers.      *)
(***************************************************************************)
InitDate ==
    /\ catalogue = <<>>
    /\ ref_date \in DateInputRange
    /\ cloud_threshold = DefaultCloudThreshold
    /\ band_option = DefaultBandOption
    /\ FreshRun
    /\ prev = None

NextDate ==
    \/ GetCenter
    \/ ReadInputs

SpecDate == InitDate /\ [][NextDate]_vars

(***************************************************************************)
(* Reference notions the properties are stated with.                       *)
(***************************************************************************)
\* the calendar day before d
PrevDay(d) ==
    IF d[3] > 1 THEN <<d[1], d[2], d[3] - 1>>
    ELSE IF d[2] > 1 THEN <<d[1], d[2] - 1, DaysInMonth(d[1], d[2] - 1)>>
    ELSE <<d[1] - 1, 12, 31>>

\* the calendar day k days before d
RECURSIVE DaysBack(_, _)
DaysBack(d, k) == IF k = 0 THEN d ELSE DaysBack(PrevDay(d), k - 1)

Range(seq) == {seq[i] : i \in DOMAIN seq}

InRegion(img) == \E px \in img.footprint : px \in akita

\* acquired on a UTC calendar day from first to last, both included
AcquiredOnDays(img, first, last) ==
    LET day == FormatDate(img.time) IN DateLE(first, day) /\ DateLE(day, last)

\* acquired at or after 00:00 UTC of the day 20 days before the reference
\* date and before 00:00 UTC of the reference date: the window the query applies
InQueryWindow(img) ==
    LET day == ToOrdinal(<<1970, 1, 1>>) + (img.time \div 24)
        ref == ToOrdinal(ref_date)
    IN  ref - 20 <= day /\ day < ref

BelowThreshold(img) == img.hasCloud /\ img.cloud < cloud_threshold * 100

\* the images of the catalogue the query's three filters let through, in
\* catalogue order
Qualifies(img) == InRegion(img) /\ InQueryWindow(img) /\ BelowThreshold(img)

Qualified == SelectSeq(catalogue, Qualifies)

(***************************************************************************)
(* Properties.                                                             *)
(***************************************************************************)

\* C1: once the size of an empty filtered collection has been read, the
\* sidebar shows count 0 and the warning and the cycle has stopped: no image
\* and no visualisation were built, no tile handle was requested, no map and
\* no layer exist, nothing was handed to st_folium.  A tile handle is only
\* ever requested after a nonzero count has been read.
C1_EmptyHalts ==
    /\ (count # None /\ collection = <<>>) =>
          /\ pc = "stopped"
          /\ sidebar.count = Some(0)
          /\ sidebar.warning
          /\ sidebar.list = None
          /\ image = None /\ vis = None
          /\ calls["mapid"] = 0 /\ map_id_dict = None
          /\ m = None /\ shown = None
    /\ calls["mapid"] > 0 => (count # None /\ count[1] > 0)
    /\ pc = "stopped" <=> (count = Some(0))

\* C1 witness: a cycle that stopped on an empty collection although the
\* catalogue holds an image (the filters removed it)
C1_Witness ==
    /\ pc = "stopped"
    /\ collection = <<>>
    /\ catalogue # <<>>
    /\ sidebar.warning

\* C2 (as claimed): once the size has been read, every catalogue image that
\* intersects the region, is below the cloud threshold and was acquired on a
\* calendar day from D-20 to D, both included, is in the filtered collection.
C2_WindowInclusive ==
    count # None =>
        \A i \in DOMAIN catalogue :
            LET img == catalogue[i]
            IN  ( /\ InRegion(img)
                  /\ BelowThreshold(img)
                  /\ AcquiredOnDays(img, DaysBack(ref_date, 20), ref_date) )
                => img \in Range(collection)

\* C3: the derived window is [D - 20 days, D]: the end is D, the start is the
\* calendar day reached by stepping back 20 days one day at a time, the two
\* are exactly 20 days apart, the start is not after the end, the sidebar shows
\* the pair, and D = 2025-07-03 gives 2025-06-13.
C3_WindowIsTwentyDays ==
    start_date # None =>
        /\ end_date = Some(ref_date)
        /\ start_date = Some(DaysBack(ref_date, 20))
        /\ ToOrdinal(end_date[1]) - ToOrdinal(start_date[1]) = 20
        /\ DateLE(start_date[1], end_date[1])
        /\ sidebar.period = Some(<<start_date[1], end_date[1]>>)
        /\ (ref_date = <<2025, 7, 3>> => start_date = Some(<<2025, 6, 13>>))

\* C3 witness: a window that crosses the leap day of 2024
C3_Witness ==
    /\ ref_date = <<2024, 3, 10>>
    /\ start_date = Some(<<2024, 2, 19>>)
    /\ end_date = Some(<<2024, 3, 10>>)

C5_RecencyPriority ==
    image # None =>
        \A px \in akita :
            LET covering == {img \in Range(collection) : px \in img.footprint}
            IN  covering # {} =>
                  \E img \in covering :
                      /\ \A other \in covering : other.time <= img.time
                      /\ image[1].raster[px] = img.id

\* C6: a map, once built, carries the legend exactly when the band option is
\* NDVI, and so does the map handed to st_folium; for the other three options
\* no legend exists at any point of the cycle.
C6_LegendIffNDVI ==
    /\ m # None => (m[1].legend <=> band_option = "NDVI")
    /\ shown # None => (shown[1].map.legend <=> band_option = "NDVI")
    /\ \A mm \in Range(m) \cup {sh.map : sh \in Range(shown)} :
          mm.legend => band_option = "NDVI"

\* C6 witness: an RGB map rendered without legend, followed in the same
\* session by an NDVI map rendered with it
C6_Witness ==
    /\ prev # None
    /\ prev[1].band_option = "RGB"
    /\ prev[1].shown # None
    /\ ~prev[1].shown[1].map.legend
    /\ pc = "done"
    /\ band_option = "NDVI"
    /\ shown[1].map.legend

\* C7: no remote call is issued more than once in a cycle; a cycle that
\* failed has built no map and rendered nothing; a failed cycle takes no
\* further step of its own; and the run that follows a failed cycle starts
\* with nothing computed, nothing on the page and no call issued, and keeps
\* nothing of the failed cycle.
C7_NoRetryNoRecovery ==
    /\ [](\A c \in RemoteCalls : calls[c] <= 1)
    /\ [](pc = "failed" => (m = None /\ shown = None /\ map_id_dict = None))
    /\ [][pc = "failed" =>
            /\ pc' = "center"
            /\ start_date' = None /\ end_date' = None /\ collection' = <<>>
            /\ count' = None /\ timestamps' = None /\ clouds' = None
            /\ sidebar' = EmptySidebar
            /\ image' = None /\ vis' = None /\ map_id_dict' = None
            /\ m' = None /\ shown' = None
            /\ calls' = [c \in RemoteCalls |-> 0]
            /\ prev' = prev]_vars

\* C7 witness: the tile-handle request failed, after the three reads succeeded
C7_Witness ==
    /\ pc = "failed"
    /\ calls = [c \in RemoteCalls |-> 1]
    /\ image # None

\* the page without the two uuid4 values: the layer name keeps the band option
\* and the date, the widget key keeps its prefix
WithoutUuid(sh) ==
    [i \in DOMAIN sh |->
        [map |-> [layers  |-> [k \in DOMAIN sh[i].map.layers |->
                                  [tiles |-> sh[i].map.layers[k].tiles,
                                   name  |-> SubSeq(sh[i].map.layers[k].name, 1, 2)]],
                  control |-> sh[i].map.control,
                  legend  |-> sh[i].map.legend],
         key |-> sh[i].key[1]]]

\* two cycles of one session that ran to their end with the same widget values
SameInputsTwice ==
    /\ prev # None
    /\ pc \in {"done", "stopped"}
    /\ prev[1].ref_date = ref_date
    /\ prev[1].cloud_threshold = cloud_threshold
    /\ prev[1].band_option = band_option

\* C8 (as claimed): two cycles with the same widget values end with the same
\* selected images, composite, visualisation, sidebar and rendered map,
\* layer name and widget key included.
C8_SameOutput == SameInputsTwice => prev[1] = Outcome

\* C8 (amended): two cycles with the same widget values that both ran to
\* their end (neither cut short by a failing remote call) end the same way,
\* with the same selected images, composite, visualisation and sidebar, and
\* the same rendered map apart from the uuid4 in the layer name and in the
\* widget key.
C8_SameOutputUpToUuid ==
    SameInputsTwice =>
        /\ prev[1].pc = pc
        /\ prev[1].collection = collection
        /\ prev[1].image = image
        /\ prev[1].vis = vis
        /\ prev[1].sidebar = sidebar
        /\ WithoutUuid(prev[1].shown) = WithoutUuid(shown)

\* C8 witness: two rendered cycles with the same widget values whose pages
\* differ
C8_Witness ==
    /\ SameInputsTwice
    /\ pc = "done"
    /\ prev[1].shown # shown

C10_ListAligned ==
    sidebar.list # None =>
        /\ Len(sidebar.list[1]) = count[1]
        /\ sidebar.count = count
        /\ Len(timestamps[1]) = count[1]
        /\ Len(clouds[1]) = count[1]
        /\ \A i \in DOMAIN sidebar.list[1] :
              \E img \in Range(collection) :
                  /\ img.hasCloud
                  /\ timestamps[1][i] = img.time
                  /\ clouds[1][i] = img.cloud
                  /\ sidebar.list[1][i] = <<FormatDate(img.time), FormatCloud(img.cloud)>>

\* C10 witness: a list is displayed although the catalogue holds, in the
\* region and the window, an image without cloud percentage
C10_Witness ==
    /\ sidebar.list # None
    /\ \E i \in DOMAIN catalogue :
          /\ ~catalogue[i].hasCloud
          /\ InRegion(catalogue[i])
          /\ InQueryWindow(catalogue[i])

====
